---- MODULE Spec2Model ----
(***************************************************************************)
(* A model of biip's parsing engine: the top-level dispatcher              *)
(* (biip/_parser.py), the GS1 Message parser and its HRI codec             *)
(* (biip/gs1/_messages.py), and the decoders they call.                    *)
(*                                                                         *)
(* Strings are sequences of ASCII codes.  An Optional[T] is a sequence of  *)
(* length at most one: None is <<>>, a set value x is <<x>>.               *)
(***************************************************************************)
EXTENDS Integers, Sequences, FiniteSets, TLC

VARIABLES
    \* biip.parse (the dispatcher)
    pc,            \* "start", "drain", "done"
    value,         \* the local `value` of parse(): the stripped input, then `rest`
    config,        \* ParseConfig: [rcn_region, separator_chars]
    result,        \* ParseResult
    queue,         \* the work queue of <<parser, val>> jobs
    outcome,       \* "none", "ParseResult" (returned) or "ParseError" (raised)
    calls,         \* the decoder calls made so far, as <<parser, val>>
    \* GS1Message.parse, as_hri, parse_hri
    msg_pc,        \* "loop", "returned", "raised", "rendered", "reparsed", "idle"
    msg_value,     \* the stripped value
    msg_rest,      \* the remaining buffer `rest`
    msg_element_strings,
    msg_seps,      \* separator_chars
    msg_hri,       \* as_hri() of the returned message
    msg_reparsed,  \* the outcome of parse_hri(msg_hri)
    \* Gtin.parse
    g_pc,          \* "call", "returned", "raised", "idle"
    g_value,
    g_region,      \* Optional region
    g_result       \* the outcome of Gtin.parse(g_value, rcn_region = g_region)

vars == <<pc, value, config, result, queue, outcome, calls,
          msg_pc, msg_value, msg_rest, msg_element_strings, msg_seps, msg_hri,
          msg_reparsed, g_pc, g_value, g_region, g_result>>

dispVars == <<pc, value, config, result, queue, outcome, calls>>
msgVars == <<msg_pc, msg_value, msg_rest, msg_element_strings, msg_seps, msg_hri,
             msg_reparsed>>
gtinVars == <<g_pc, g_value, g_region, g_result>>

-----------------------------------------------------------------------------
(* Characters and strings *)

None == <<>>
Some(x) == <<x>>

\* ASCII_GROUP_SEPARATOR, "\x1d"
ASCII_GROUP_SEPARATOR == 29
\* DEFAULT_SEPARATOR_CHARS = (ASCII_GROUP_SEPARATOR,)
DEFAULT_SEPARATOR_CHARS == {ASCII_GROUP_SEPARATOR}

\* The characters the model names, by ASCII code.
Ch == [space |-> 32, lparen |-> 40, rparen |-> 41, minus |-> 45, zero |-> 48,
       A |-> 65, B |-> 66, C |-> 67, E |-> 69, rbracket |-> 93,
       underscore |-> 95, pipe |-> 124]
ChZero == Ch.zero

\* The string of the decimal digits ds (each in 0..9).
Digs(ds) == [i \in DOMAIN ds |-> ds[i] + ChZero]

IsDigit(c) == c \in 48..57
AllDigits(s) == \A i \in DOMAIN s : IsDigit(s[i])

\* str.isspace() on an ASCII character: \t \n \v \f \r, FS GS RS US, space.
IsSpace(c) == c \in (9..13) \cup (28..32)

Drop(s, n) == SubSeq(s, n + 1, Len(s))
Take(s, n) == SubSeq(s, 1, n)
StartsWith(s, p) == Len(p) <= Len(s) /\ Take(s, Len(p)) = p

RECURSIVE LStrip(_)
LStrip(s) == IF s # <<>> /\ IsSpace(s[1]) THEN LStrip(Tail(s)) ELSE s

RECURSIVE RStrip(_)
RStrip(s) == IF s # <<>> /\ IsSpace(s[Len(s)]) THEN RStrip(Take(s, Len(s) - 1)) ELSE s

\* str.strip()
Strip(s) == RStrip(LStrip(s))

RECURSIVE Concat(_)
Concat(ss) == IF ss = <<>> THEN <<>> ELSE Head(ss) \o Concat(Tail(ss))

-----------------------------------------------------------------------------
(* Check-digit arithmetic: modulo 10, weights 3 and 1 from the right *)

RECURSIVE WeightedSum(_)
WeightedSum(payload) ==
    IF payload = <<>> THEN 0
    ELSE (payload[Len(payload)] - ChZero) * 3
         + (IF Len(payload) = 1 THEN 0
            ELSE (payload[Len(payload) - 1] - ChZero)
                 + WeightedSum(Take(payload, Len(payload) - 2)))

numeric_check_digit(payload) == (10 - (WeightedSum(payload) % 10)) % 10

\* payload followed by its check digit
WithCheck(payload) == Append(payload, numeric_check_digit(payload) + ChZero)

CheckDigitOk(s) ==
    /\ Len(s) >= 2
    /\ s[Len(s)] - ChZero = numeric_check_digit(Take(s, Len(s) - 1))

Failure(msg) == [ok |-> FALSE, obj |-> None, error |-> msg]
Success(x) == [ok |-> TRUE, obj |-> Some(x), error |-> ""]

-----------------------------------------------------------------------------
(* Gtin.parse and the RCN refinement *)

GTIN_8 == 8
GTIN_12 == 12
GTIN_13 == 13
GTIN_14 == 14

RcnRegions == {"ee", "no", "se"}

\* The 13-digit form whose leading digits select the GS1 prefix record.
Canonical13(s) ==
    IF Len(s) = 12 THEN <<ChZero>> \o s
    ELSE IF Len(s) = 14 THEN Drop(s, 1)
    ELSE s

D(s, i) == s[i] - ChZero

\* RCN detection: a GTIN-8 with leading digit 0 or 2, or a GTIN-12/13 whose
\* 13-digit form starts 02, 04 or 2.  A GTIN-14 is never an RCN.
IsRcn(s) ==
    IF Len(s) = GTIN_8 THEN D(s, 1) \in {0, 2}
    ELSE IF Len(s) \in {GTIN_12, GTIN_13}
    THEN LET c == Canonical13(s)
         IN  D(c, 1) = 2 \/ (D(c, 1) = 0 /\ D(c, 2) \in {2, 4})
    ELSE FALSE

\* Rcn._set_usage
RcnUsageOf(s) ==
    IF Len(s) = GTIN_8 THEN "COMPANY"
    ELSE LET c == Canonical13(s)
         IN  IF D(c, 1) = 0 /\ D(c, 2) = 4 THEN "COMPANY" ELSE "GEOGRAPHICAL"

\* The regional rule for the two leading digits of an RCN-13:
\* <<measure type, implied decimals>>, or <<>> when the region has none.
RcnStrategy(region, s) ==
    IF Len(s) # GTIN_13 \/ D(s, 1) # 2 THEN <<>>
    ELSE LET p == D(s, 2)
         IN  IF region \in {"no", "se"} /\ p \in {0, 1, 2} THEN <<"PRICE", 2 - p>>
             ELSE IF p \in {3, 4, 5} THEN <<"WEIGHT", 6 - p>>
             ELSE <<>>

RcnCurrency(region) ==
    IF region = "se" THEN "SEK" ELSE IF region = "no" THEN "NOK" ELSE "EUR"

\* The four digits before the check digit, as a number.
VariableMeasure(s) == D(s, 9) * 1000 + D(s, 10) * 100 + D(s, 11) * 10 + D(s, 12)

PlainGtin(s) ==
    [value |-> s, format |-> Len(s), payload |-> Take(s, Len(s) - 1),
     check_digit |-> D(s, Len(s)), is_rcn |-> FALSE, usage |-> None,
     region |-> None, weight |-> None, price |-> None, money |-> None]

\* WithRegionalRules that records the region whatever the usage
WithRegionalRules_AnyUsage(rcn, region) == [rcn EXCEPT !.region = Some(region)]

\* Rcn._parse_with_regional_rules: nothing for COMPANY usage; else the region
\* is recorded and its rule, if any, yields weight or price (and money).
WithRegionalRules(rcn, region) ==
    IF rcn.usage = Some("COMPANY") THEN rcn
    ELSE LET st == RcnStrategy(region, rcn.value)
             m == [digits |-> VariableMeasure(rcn.value), decimals |-> st[2]]
         IN  IF st = <<>> THEN [rcn EXCEPT !.region = Some(region)]
             ELSE IF st[1] = "WEIGHT"
             THEN [rcn EXCEPT !.region = Some(region), !.weight = Some(m)]
             ELSE [rcn EXCEPT !.region = Some(region), !.price = Some(m),
                              !.money = Some([amount |-> m,
                                              currency |-> RcnCurrency(region)])]

\* Gtin.parse(value, rcn_region=...)
GtinParse(v, rcn_region) ==
    LET s == Strip(v)
    IN  IF Len(s) \notin {GTIN_8, GTIN_12, GTIN_13, GTIN_14} THEN Failure("gtin: length")
        ELSE IF ~AllDigits(s) THEN Failure("gtin: not numeric")
        ELSE IF ~CheckDigitOk(s) THEN Failure("gtin: check digit")
        ELSE IF ~IsRcn(s) THEN Success(PlainGtin(s))
        ELSE LET rcn == [PlainGtin(s) EXCEPT !.is_rcn = TRUE,
                                             !.usage = Some(RcnUsageOf(s))]
             IN  IF rcn_region = None THEN Success(rcn)
                 ELSE Success(WithRegionalRules(rcn, rcn_region[1]))

\* Gtin.as_gtin_12(): the last 12 digits of the zero-padded form
as_gtin_12(g) ==
    LET padded == [i \in 1..(14 - Len(g.value)) |-> ChZero] \o g.value
    IN  Drop(padded, 2)

-----------------------------------------------------------------------------
(* Upc.parse, UPC-E expansion *)

\* The 11-digit UPC-A body of number system ns and the six UPC-E digits b.
UpcEExpand(ns, b) ==
    LET z(n) == [i \in 1..n |-> ChZero]
        last == D(b, 6)
    IN  IF last \in {0, 1, 2}
        THEN <<ns, b[1], b[2], b[6]>> \o z(4) \o <<b[3], b[4], b[5]>>
        ELSE IF last = 3 THEN <<ns, b[1], b[2], b[3]>> \o z(5) \o <<b[4], b[5]>>
        ELSE IF last = 4 THEN <<ns, b[1], b[2], b[3], b[4]>> \o z(5) \o <<b[5]>>
        ELSE <<ns, b[1], b[2], b[3], b[4], b[5]>> \o z(4) \o <<b[6]>>

UpcObject(s, format, upc_a) ==
    [value |-> s, format |-> format, number_system |-> D(upc_a, 1),
     check_digit |-> D(upc_a, 12), upc_a |-> upc_a]

\* Upc.parse(value)
UpcParse(v) ==
    LET s == Strip(v)
    IN  IF ~AllDigits(s) THEN Failure("upc: not numeric")
        ELSE IF Len(s) = 12
        THEN IF CheckDigitOk(s) THEN Success(UpcObject(s, "UPC_A", s))
             ELSE Failure("upc: check digit")
        ELSE IF Len(s) = 6
        THEN Success(UpcObject(s, "UPC_E", WithCheck(UpcEExpand(ChZero, s))))
        ELSE IF Len(s) = 7
        THEN LET a == WithCheck(UpcEExpand(ChZero, Take(s, 6)))
             IN  IF a[12] = s[7] THEN Success(UpcObject(s, "UPC_E", a))
                 ELSE Failure("upc: check digit")
        ELSE IF Len(s) = 8
        THEN IF D(s, 1) \notin {0, 1} THEN Failure("upc: number system")
             ELSE LET a == WithCheck(UpcEExpand(s[1], SubSeq(s, 2, 7)))
                  IN  IF a[12] = s[8] THEN Success(UpcObject(s, "UPC_E", a))
                      ELSE Failure("upc: check digit")
        ELSE Failure("upc: length")

\* Upc.as_upc_a()
as_upc_a(u) == u.upc_a

-----------------------------------------------------------------------------
(* Sscc.parse *)

SsccLength == 18

SsccParse(v) ==
    LET s == Strip(v)
    IN  IF Len(s) # SsccLength THEN Failure("sscc: length")
        ELSE IF ~AllDigits(s) THEN Failure("sscc: not numeric")
        ELSE IF ~CheckDigitOk(s) THEN Failure("sscc: check digit")
        ELSE Success([value |-> s, extension_digit |-> D(s, 1),
                      check_digit |-> D(s, SsccLength)])

-----------------------------------------------------------------------------
(* The Application Identifier catalog and GS1ElementString.extract *)

AI(ai, fixed, var_max, var_class, fnc1_required) ==
    [ai |-> Digs(ai), fixed |-> fixed, var_max |-> var_max,
     var_class |-> var_class, fnc1_required |-> fnc1_required]

\* 00 SSCC N18, 01 GTIN N14, 10 BATCH/LOT X..20, 20 VARIANT N2,
\* 37 COUNT N..8, 3103 NET WEIGHT (kg) N6
_GS1_APPLICATION_IDENTIFIERS ==
    { AI(<<0, 0>>, 18, 0, "N", FALSE),
      AI(<<0, 1>>, 14, 0, "N", FALSE),
      AI(<<1, 0>>, 0, 20, "X", TRUE),
      AI(<<2, 0>>, 2, 0, "N", FALSE),
      AI(<<3, 7>>, 0, 8, "N", TRUE),
      AI(<<3, 1, 0, 3>>, 6, 0, "N", FALSE) }

\* The GS1 AI encodable character set 82
IsX(c) == c \in {33, 34} \cup (37..63) \cup (65..90) \cup {95} \cup (97..122)

InClass(c, class) == IF class = "N" THEN IsDigit(c) ELSE IsX(c)

\* GS1ApplicationIdentifier.extract: the longest AI that is a prefix of buf
LookupAI(buf) ==
    LET hits == {e \in _GS1_APPLICATION_IDENTIFIERS : StartsWith(buf, e.ai)}
    IN  IF hits = {} THEN None
        ELSE Some(CHOOSE e \in hits : \A f \in hits : Len(f.ai) <= Len(e.ai))

\* The part of s before its first character in seps
RECURSIVE UpToSeparator(_, _)
UpToSeparator(s, seps) ==
    IF s = <<>> \/ s[1] \in seps THEN <<>>
    ELSE <<s[1]>> \o UpToSeparator(Tail(s), seps)

\* The longest prefix of s, of at most max characters, all of the class
RECURSIVE ClassRun(_, _, _)
ClassRun(s, class, max) ==
    IF s = <<>> \/ max = 0 \/ ~InClass(s[1], class) THEN <<>>
    ELSE <<s[1]>> \o ClassRun(Tail(s), class, max - 1)

ElementString(ai, val, gtin, sscc) ==
    [ai |-> ai, value |-> val, gtin |-> gtin, sscc |-> sscc]

\* GS1ElementString.extract(value, rcn_region=..., separator_chars=...)
Extract(buf, rcn_region, seps) ==
    LET found == LookupAI(buf)
        ai == found[1]
        body == UpToSeparator(Drop(buf, Len(ai.ai)), seps)
        fixed == Take(body, ai.fixed)
        val == fixed \o ClassRun(Drop(body, ai.fixed), ai.var_class, ai.var_max)
    IN  IF found = None THEN Failure("element: unknown AI")
        ELSE IF Len(body) < ai.fixed \/ ~AllDigits(fixed)
        THEN Failure("element: pattern")
        ELSE IF ai.ai = Digs(<<0, 1>>)
        THEN LET g == GtinParse(val, rcn_region)
             IN  IF g.ok THEN Success(ElementString(ai, val, g.obj, None))
                 ELSE Failure(g.error)
        ELSE IF ai.ai = Digs(<<0, 0>>)
        THEN LET c == SsccParse(val)
             IN  IF c.ok THEN Success(ElementString(ai, val, None, c.obj))
                 ELSE Failure(c.error)
        ELSE Success(ElementString(ai, val, None, None))

\* GS1ElementString.__len__
ElementLen(es) == Len(es.ai.ai) + Len(es.value)

\* GS1ElementString.as_hri
ElementAsHri(es) == <<Ch.lparen>> \o es.ai.ai \o <<Ch.rparen>> \o es.value

-----------------------------------------------------------------------------
(* GS1Message.parse *)

\* ParseEnter that keeps the unstripped value as the message's value
ParseEnter_NoStrip(v) ==
    [value |-> v, rest |-> Strip(v), element_strings |-> <<>>, status |-> "loop"]

\* The state of the loop when parse() is entered
ParseEnter(v) ==
    [value |-> Strip(v), rest |-> Strip(v), element_strings |-> <<>>,
     status |-> "loop"]

\* AfterElement that skips a separator whatever the AI
AfterElement_AlwaysSkip(st, es, seps) ==
    LET rest == Drop(st.rest, ElementLen(es))
        added == Append(st.element_strings, es)
    IN  IF rest # <<>> /\ rest[1] \in seps
        THEN [st EXCEPT !.rest = Tail(rest), !.element_strings = added]
        ELSE [st EXCEPT !.rest = rest, !.element_strings = added]

\* What follows the extraction of element string es from st.rest
AfterElement(st, es, seps) ==
    LET rest == Drop(st.rest, ElementLen(es))
        added == Append(st.element_strings, es)
    IN  IF rest # <<>> /\ rest[1] \in seps
        THEN IF es.ai.fnc1_required
             THEN [st EXCEPT !.rest = Tail(rest), !.element_strings = added]
             ELSE [st EXCEPT !.rest = rest, !.element_strings = added,
                             !.status = "raised"]
        ELSE [st EXCEPT !.rest = rest, !.element_strings = added]

\* One turn of `while rest:`; with rest empty, the return
ParseStep(st, rcn_region, seps) ==
    IF st.rest = <<>> THEN [st EXCEPT !.status = "returned"]
    ELSE LET e == Extract(st.rest, rcn_region, seps)
         IN  IF ~e.ok THEN [st EXCEPT !.status = "raised"]
             ELSE AfterElement(st, e.obj[1], seps)

RECURSIVE ParseRun(_, _, _)
ParseRun(st, rcn_region, seps) ==
    IF st.status # "loop" THEN st
    ELSE ParseRun(ParseStep(st, rcn_region, seps), rcn_region, seps)

GS1MessageOf(st) == [value |-> st.value, element_strings |-> st.element_strings]

\* GS1Message.parse(value, rcn_region=..., separator_chars=...)
GS1MessageParse(v, rcn_region, seps) ==
    LET st == ParseRun(ParseEnter(v), rcn_region, seps)
    IN  IF st.status = "returned" THEN Success(GS1MessageOf(st))
        ELSE Failure("gs1: parse error")

\* GS1Message.filter(ai=...): the element strings whose AI starts with ai
Filter(msg, ai) ==
    SelectSeq(msg.element_strings, LAMBDA es : StartsWith(es.ai.ai, ai))

\* GS1Message.get(ai=...): the first match, if any
Get(msg, ai) ==
    LET matches == Filter(msg, ai)
    IN  IF matches = <<>> THEN None ELSE Some(matches[1])

-----------------------------------------------------------------------------
(* GS1Message.as_hri and GS1Message.parse_hri *)

as_hri(msg) ==
    Concat([i \in DOMAIN msg.element_strings |-> ElementAsHri(msg.element_strings[i])])

\* \w on an ASCII character
IsWord(c) == IsDigit(c) \/ c \in 65..90 \/ c \in 97..122 \/ c = Ch.underscore

\* One past the longest run, from index i of s on, of \d ("d") or \w ("w")
RECURSIVE RunEnd(_, _, _)
RunEnd(s, i, class) ==
    IF i <= Len(s) /\ (IF class = "d" THEN IsDigit(s[i]) ELSE IsWord(s[i]))
    THEN RunEnd(s, i + 1, class)
    ELSE i

\* re.findall(r"\((\d+)\)(\w+)", s), scanning from index i
RECURSIVE FindAll(_, _)
FindAll(s, i) ==
    IF i > Len(s) THEN <<>>
    ELSE LET d == RunEnd(s, i + 1, "d")   \* one past the digits
             w == RunEnd(s, d + 1, "w")   \* one past the word characters
         IN  IF /\ s[i] = Ch.lparen
                /\ d > i + 1
                /\ d <= Len(s) /\ s[d] = Ch.rparen
                /\ w > d + 1
             THEN <<[ai_number |-> SubSeq(s, i + 1, d - 1),
                     ai_data |-> SubSeq(s, d + 1, w - 1)]>> \o FindAll(s, w)
             ELSE FindAll(s, i + 1)

KnownAI(ai_number) == \E e \in _GS1_APPLICATION_IDENTIFIERS : e.ai = ai_number
CatalogEntry(ai_number) == CHOOSE e \in _GS1_APPLICATION_IDENTIFIERS : e.ai = ai_number

\* AI, data and, for an fnc1_required AI, the group separator
NormalizedPart(m) ==
    m.ai_number \o m.ai_data
    \o (IF CatalogEntry(m.ai_number).fnc1_required THEN <<ASCII_GROUP_SEPARATOR>>
        ELSE <<>>)

\* GS1Message.parse_hri(value, rcn_region=...)
parse_hri(v, rcn_region) ==
    LET s == Strip(v)
        matches == FindAll(s, 1)
    IN  IF ~StartsWith(s, <<Ch.lparen>>) THEN Failure("hri: no parenthesis")
        ELSE IF matches = <<>> THEN Failure("hri: no AIs")
        ELSE IF \E i \in DOMAIN matches : ~KnownAI(matches[i].ai_number)
        THEN Failure("hri: unknown AI")
        ELSE GS1MessageParse(
                 Concat([i \in DOMAIN matches |-> NormalizedPart(matches[i])]),
                 rcn_region, DEFAULT_SEPARATOR_CHARS)

-----------------------------------------------------------------------------
(* SymbologyIdentifier.extract and GS1Symbology *)

\* GS1Symbology.with_gtin(): E0, E3, E4
with_gtin == {<<69, 48>>, <<69, 51>>, <<69, 52>>}

\* GS1Symbology.with_ai_element_strings(): C1, e0, e1, e2, d2, Q3, I1
with_ai_element_strings ==
    {<<67, 49>>, <<101, 48>>, <<101, 49>>, <<101, 50>>, <<100, 50>>, <<81, 51>>,
     <<73, 49>>}

IsPrintable(c) == c \in 32..126

\* SymbologyIdentifier.extract(value): "]", a flag and a modifier character
SymbologyIdentifierExtract(v) ==
    IF Len(v) < 3 \/ ~IsPrintable(v[2]) \/ ~IsPrintable(v[3])
    THEN Failure("symbology identifier")
    ELSE LET code == SubSeq(v, 2, 3)
         IN  Success([value |-> Take(v, 3),
                      gs1_symbology |->
                          IF code \in with_gtin \cup with_ai_element_strings
                          THEN Some(code) ELSE None])

-----------------------------------------------------------------------------
(* biip.parse: ParseResult and its four handlers *)

\* ParseResult(value=value)
ParseResult(v) ==
    [value |-> v, symbology_identifier |-> None,
     gtin |-> None, gtin_error |-> None,
     upc |-> None, upc_error |-> None,
     sscc |-> None, sscc_error |-> None,
     gs1_message |-> None, gs1_message_error |-> None]

Job(parser, val) == [parser |-> parser, val |-> val]

\* What a handler leaves behind: the result, the queue and the decoder calls
Handled(res, q, cs) == [result |-> res, queue |-> q, calls |-> cs]

\* _parse_gtin without the GTIN-to-UPC cross-feed
_parse_gtin_NoCrossFeed(res, val, cfg, q, cs) ==
    IF res.gtin # None THEN Handled(res, q, cs)
    ELSE LET g == GtinParse(val, cfg.rcn_region)
             cs1 == Append(cs, Job("Gtin", val))
         IN  IF ~g.ok
             THEN Handled([res EXCEPT !.gtin = None, !.gtin_error = Some(g.error)],
                          q, cs1)
             ELSE Handled([res EXCEPT !.gtin = g.obj, !.gtin_error = None], q, cs1)

\* _parse_gtin that queues the UPC job after a failed parse too
_parse_gtin_FeedsOnFailure(res, val, cfg, q, cs) ==
    IF res.gtin # None THEN Handled(res, q, cs)
    ELSE LET g == GtinParse(val, cfg.rcn_region)
             cs1 == Append(cs, Job("Gtin", val))
         IN  IF ~g.ok
             THEN Handled([res EXCEPT !.gtin = None, !.gtin_error = Some(g.error)],
                          Append(q, Job("Upc", val)), cs1)
             ELSE Handled([res EXCEPT !.gtin = g.obj, !.gtin_error = None],
                          IF g.obj[1].format = GTIN_12 /\ res.upc = None
                          THEN Append(q, Job("Upc", as_gtin_12(g.obj[1])))
                          ELSE q,
                          cs1)

\* ParseResult._parse_gtin(value, config=config, queue=queue)
_parse_gtin(res, val, cfg, q, cs) ==
    IF res.gtin # None THEN Handled(res, q, cs)
    ELSE LET g == GtinParse(val, cfg.rcn_region)
             cs1 == Append(cs, Job("Gtin", val))
         IN  IF ~g.ok
             THEN Handled([res EXCEPT !.gtin = None, !.gtin_error = Some(g.error)],
                          q, cs1)
             ELSE Handled([res EXCEPT !.gtin = g.obj, !.gtin_error = None],
                          IF g.obj[1].format = GTIN_12 /\ res.upc = None
                          THEN Append(q, Job("Upc", as_gtin_12(g.obj[1])))
                          ELSE q,
                          cs1)

\* _parse_upc without the early return for a slot that is set
_parse_upc_NoGuard(res, val, cfg, q, cs) ==
    LET u == UpcParse(val)
        cs1 == Append(cs, Job("Upc", val))
    IN  IF ~u.ok
        THEN Handled([res EXCEPT !.upc = None, !.upc_error = Some(u.error)], q, cs1)
        ELSE Handled([res EXCEPT !.upc = u.obj, !.upc_error = None],
                     IF res.gtin = None
                     THEN Append(q, Job("Gtin", as_upc_a(u.obj[1])))
                     ELSE q,
                     cs1)

\* ParseResult._parse_upc(value, config=config, queue=queue)
_parse_upc(res, val, cfg, q, cs) ==
    IF res.upc # None THEN Handled(res, q, cs)
    ELSE LET u == UpcParse(val)
             cs1 == Append(cs, Job("Upc", val))
         IN  IF ~u.ok
             THEN Handled([res EXCEPT !.upc = None, !.upc_error = Some(u.error)],
                          q, cs1)
             ELSE Handled([res EXCEPT !.upc = u.obj, !.upc_error = None],
                          IF res.gtin = None
                          THEN Append(q, Job("Gtin", as_upc_a(u.obj[1])))
                          ELSE q,
                          cs1)

\* ParseResult._parse_sscc(value, config=config, queue=queue)
_parse_sscc(res, val, cfg, q, cs) ==
    IF res.sscc # None THEN Handled(res, q, cs)
    ELSE LET c == SsccParse(val)
             cs1 == Append(cs, Job("Sscc", val))
         IN  IF ~c.ok
             THEN Handled([res EXCEPT !.sscc = None, !.sscc_error = Some(c.error)],
                          q, cs1)
             ELSE Handled([res EXCEPT !.sscc = c.obj, !.sscc_error = None], q, cs1)

\* CrossFeeds without the GTIN job
CrossFeeds_SsccOnly(msg) ==
    LET ai_00 == Get(msg, Digs(<<0, 0>>))
    IN  IF ai_00 # None /\ ai_00[1].sscc # None
        THEN <<Job("Sscc", ai_00[1].sscc[1].value)>> ELSE <<>>

\* The jobs a parsed GS1 Message adds: its first AI 00, then its first AI 01
CrossFeeds(msg) ==
    LET ai_00 == Get(msg, Digs(<<0, 0>>))
        ai_01 == Get(msg, Digs(<<0, 1>>))
    IN  (IF ai_00 # None /\ ai_00[1].sscc # None
         THEN <<Job("Sscc", ai_00[1].sscc[1].value)>> ELSE <<>>)
        \o (IF ai_01 # None /\ ai_01[1].gtin # None
            THEN <<Job("Gtin", ai_01[1].gtin[1].value)>> ELSE <<>>)

\* ParseResult._parse_gs1_message(value, config=config, queue=queue)
_parse_gs1_message(res, val, cfg, q, cs) ==
    IF res.gs1_message # None THEN Handled(res, q, cs)
    ELSE LET m == GS1MessageParse(val, cfg.rcn_region, cfg.separator_chars)
             cs1 == Append(cs, Job("GS1Message", val))
         IN  IF ~m.ok
             THEN Handled([res EXCEPT !.gs1_message = None,
                                      !.gs1_message_error = Some(m.error)],
                          q, cs1)
             ELSE Handled([res EXCEPT !.gs1_message = m.obj,
                                      !.gs1_message_error = None],
                          q \o CrossFeeds(m.obj[1]), cs1)

\* _has_result that overlooks gs1_message
_has_result_NoMessage(res) ==
    res.gtin # None \/ res.upc # None \/ res.sscc # None

\* ParseResult._has_result
_has_result(res) ==
    res.gtin # None \/ res.upc # None \/ res.sscc # None \/ res.gs1_message # None

\* SelectParsers that ignores the Symbology Identifier
SelectParsers_All(si, rest) ==
    <<Job("GS1Message", rest), Job("Gtin", rest), Job("Sscc", rest),
      Job("Upc", rest)>>

\* "Select parsers": the queue seeded for the rest after Symbology Identifier si
SelectParsers(si, rest) ==
    LET chosen ==
            IF si = None THEN <<>>
            ELSE (IF si[1].gs1_symbology # None
                     /\ si[1].gs1_symbology[1] \in with_gtin
                  THEN <<Job("Gtin", rest)>> ELSE <<>>)
                 \o (IF si[1].gs1_symbology # None
                        /\ si[1].gs1_symbology[1] \in with_ai_element_strings
                     THEN <<Job("GS1Message", rest)>> ELSE <<>>)
    IN  IF chosen # <<>> THEN chosen
        ELSE <<Job("GS1Message", rest), Job("Gtin", rest), Job("Sscc", rest),
               Job("Upc", rest)>>

-----------------------------------------------------------------------------
(* The inputs the specifications draw from *)

\* The most chunks an input to biip.parse is made of
MaxParts == 2
\* The most chunks an input to GS1Message.parse is made of
MaxMsgParts == 3

SeqsUpTo(S, n) == UNION {[1..k -> S] : k \in 0..n}

Zeros(n) == [i \in 1..n |-> ChZero]

SampleGtin13 == WithCheck(Digs(<<5, 9, 0, 1, 2, 3, 4, 1, 2, 3, 4, 5>>))
SampleGtin12 == WithCheck(Digs(<<6, 1, 4, 1, 4, 1, 0, 0, 0, 0, 3>>))
SampleGtin8 == WithCheck(Digs(<<9, 6, 3, 8, 5, 0, 7>>))
SampleRcn13 == WithCheck(Digs(<<2, 3, 1, 1, 1, 1, 1, 1, 1, 2, 3, 4>>))
SampleUpcE == Digs(<<4, 2, 5, 2, 6, 1>>)
SampleSscc ==
    WithCheck(Digs(<<3, 7, 6, 1, 0, 4, 2, 5, 0, 0, 2, 1, 2, 3, 4, 5, 6>>))

Ai01(gtin) == Digs(<<0, 1>>) \o Zeros(14 - Len(gtin)) \o gtin
Ai00 == Digs(<<0, 0>>) \o SampleSscc
Ai10(data) == Digs(<<1, 0>>) \o data
Ai20 == Digs(<<2, 0, 1, 2>>)
Ai37(count) == Digs(<<3, 7>>) \o Digs(count)

DispatchChunks ==
    { SampleGtin13, SampleGtin12, SampleGtin8, SampleRcn13, SampleUpcE, SampleSscc,
      Ai01(SampleGtin13), Ai01(SampleGtin12), Ai00, Ai10(<<Ch.A, Ch.B>>), Ai20,
      <<ASCII_GROUP_SEPARATOR>>, <<Ch.space>> }

\* No Symbology Identifier, "]E0", "]C1", and a bare "]" that takes its flag
\* and modifier from what follows
DispatchPrefixes ==
    { <<>>, <<Ch.rbracket, 69, 48>>, <<Ch.rbracket, 67, 49>>, <<Ch.rbracket>> }

DispatchInputs ==
    { p \o Concat(parts) : p \in DispatchPrefixes,
                           parts \in SeqsUpTo(DispatchChunks, MaxParts) }

Configs ==
    { [rcn_region |-> r, separator_chars |-> DEFAULT_SEPARATOR_CHARS] :
          r \in {None, Some("se")} }

MsgChunks ==
    { Ai01(SampleGtin13), Ai00, Ai10(<<Ch.A, Ch.B>>), Ai10(<<Ch.A, Ch.minus, 49>>),
      Ai37(<<1, 2, 3, 4, 5, 6, 7, 8>>), Ai37(<<1, 2>>), Ai20,
      <<ASCII_GROUP_SEPARATOR>>, <<Ch.pipe>>, <<Ch.space>> }

MsgInputs == { Concat(parts) : parts \in SeqsUpTo(MsgChunks, MaxMsgParts) }

MsgSeparators == { DEFAULT_SEPARATOR_CHARS, {Ch.pipe} }

\* Digit strings of every GTIN length with every pair of leading digits drawn
\* from 0, 2, 4, 5, right and wrong check digits, and one padded with a space
GtinLeads == {0, 2, 4, 5}
GtinPayloads ==
    { Digs(<<a, b>>) \o [i \in 1..(n - 3) |-> ChZero + (i % 10)] :
          a \in GtinLeads, b \in GtinLeads, n \in {GTIN_8, GTIN_12, GTIN_13, GTIN_14} }
GtinInputs ==
    { WithCheck(p) : p \in GtinPayloads }
    \cup { Append(p, ChZero + ((numeric_check_digit(p) + 1) % 10)) : p \in GtinPayloads }
    \cup { <<Ch.space>> \o SampleRcn13, Take(SampleRcn13, 11) }

-----------------------------------------------------------------------------
(* biip.parse *)

DispIdle ==
    /\ pc = "idle" /\ value = <<>> /\ config = [rcn_region |-> None,
                                                 separator_chars |-> {}]
    /\ result = ParseResult(<<>>) /\ queue = <<>> /\ outcome = "none"
    /\ calls = <<>>

MsgIdle ==
    /\ msg_pc = "idle" /\ msg_value = <<>> /\ msg_rest = <<>>
    /\ msg_element_strings = <<>> /\ msg_seps = {} /\ msg_hri = <<>>
    /\ msg_reparsed = Failure("")

GtinIdle ==
    /\ g_pc = "idle" /\ g_value = <<>> /\ g_region = None /\ g_result = Failure("")

Init ==
    /\ pc = "start"
    /\ value \in DispatchInputs
    /\ config \in Configs
    /\ result = ParseResult(<<>>)
    /\ queue = <<>>
    /\ outcome = "none"
    /\ calls = <<>>
    /\ MsgIdle
    /\ GtinIdle

\* Lines 47-77: strip, extract the Symbology Identifier, select the parsers.
\* A ParseError of SymbologyIdentifier.extract leaves parse().
Seed ==
    /\ pc = "start"
    /\ LET v == Strip(value)
           si == IF StartsWith(v, <<Ch.rbracket>>)
                 THEN SymbologyIdentifierExtract(v) ELSE Success(None)
           found == IF StartsWith(v, <<Ch.rbracket>>) THEN si.obj ELSE None
           rest == IF found = None THEN v ELSE Drop(v, Len(found[1].value))
       IN  IF ~si.ok
           THEN /\ pc' = "done"
                /\ outcome' = "ParseError"
                /\ result' = ParseResult(v)
                /\ UNCHANGED <<value, queue>>
           ELSE /\ pc' = "drain"
                /\ result' = [ParseResult(v) EXCEPT !.symbology_identifier = found]
                /\ value' = rest
                /\ queue' = SelectParsers(found, rest)
                /\ UNCHANGED outcome
    /\ UNCHANGED <<config, calls, msgVars, gtinVars>>

\* One turn of `while queue:` for the job at the head of the queue
Handle(h) ==
    /\ result' = h.result
    /\ queue' = h.queue
    /\ calls' = h.calls
    /\ UNCHANGED <<pc, value, config, outcome, msgVars, gtinVars>>

RunGS1Message ==
    /\ pc = "drain" /\ queue # <<>> /\ Head(queue).parser = "GS1Message"
    /\ Handle(_parse_gs1_message(result, Head(queue).val, config, Tail(queue), calls))

RunGtin ==
    /\ pc = "drain" /\ queue # <<>> /\ Head(queue).parser = "Gtin"
    /\ Handle(_parse_gtin(result, Head(queue).val, config, Tail(queue), calls))

RunSscc ==
    /\ pc = "drain" /\ queue # <<>> /\ Head(queue).parser = "Sscc"
    /\ Handle(_parse_sscc(result, Head(queue).val, config, Tail(queue), calls))

RunUpc ==
    /\ pc = "drain" /\ queue # <<>> /\ Head(queue).parser = "Upc"
    /\ Handle(_parse_upc(result, Head(queue).val, config, Tail(queue), calls))

\* Lines 92-95: return the result or raise ParseError
Finish ==
    /\ pc = "drain" /\ queue = <<>>
    /\ pc' = "done"
    /\ outcome' = IF _has_result(result) THEN "ParseResult" ELSE "ParseError"
    /\ UNCHANGED <<value, config, result, queue, calls, msgVars, gtinVars>>

Next == Seed \/ RunGS1Message \/ RunGtin \/ RunSscc \/ RunUpc \/ Finish

Spec == Init /\ [][Next]_vars

-----------------------------------------------------------------------------
(* GS1Message.parse, as_hri and parse_hri, one loop turn at a time *)

MsgInit ==
    /\ msg_pc = "call"
    /\ msg_value \in MsgInputs
    /\ msg_seps \in MsgSeparators
    /\ msg_rest = <<>>
    /\ msg_element_strings = <<>>
    /\ msg_hri = <<>>
    /\ msg_reparsed = Failure("")
    /\ DispIdle
    /\ GtinIdle

MsgState ==
    [value |-> msg_value, rest |-> msg_rest,
     element_strings |-> msg_element_strings, status |-> msg_pc]

MsgSet(st) ==
    /\ msg_value' = st.value
    /\ msg_rest' = st.rest
    /\ msg_element_strings' = st.element_strings
    /\ msg_pc' = st.status

\* Lines 64-66
MsgEnter ==
    /\ msg_pc = "call"
    /\ MsgSet(ParseEnter(msg_value))
    /\ UNCHANGED <<msg_seps, msg_hri, msg_reparsed, dispVars, gtinVars>>

\* Lines 68-87
MsgStep ==
    /\ msg_pc = "loop"
    /\ MsgSet(ParseStep(MsgState, None, msg_seps))
    /\ UNCHANGED <<msg_seps, msg_hri, msg_reparsed, dispVars, gtinVars>>

\* as_hri() of the returned message
MsgAsHri ==
    /\ msg_pc = "returned"
    /\ msg_hri' = as_hri(GS1MessageOf(MsgState))
    /\ msg_pc' = "rendered"
    /\ UNCHANGED <<msg_value, msg_rest, msg_element_strings, msg_seps,
                   msg_reparsed, dispVars, gtinVars>>

\* parse_hri() of that rendering
MsgParseHri ==
    /\ msg_pc = "rendered"
    /\ msg_reparsed' = parse_hri(msg_hri, None)
    /\ msg_pc' = "reparsed"
    /\ UNCHANGED <<msg_value, msg_rest, msg_element_strings, msg_seps, msg_hri,
                   dispVars, gtinVars>>

MsgNext == MsgEnter \/ MsgStep \/ MsgAsHri \/ MsgParseHri

SpecMsg == MsgInit /\ [][MsgNext]_vars

-----------------------------------------------------------------------------
(* Gtin.parse *)

GtinInit ==
    /\ g_pc = "call"
    /\ g_value \in GtinInputs
    /\ g_region \in {None} \cup {Some(r) : r \in RcnRegions}
    /\ g_result = Failure("")
    /\ DispIdle
    /\ MsgIdle

GtinCall ==
    /\ g_pc = "call"
    /\ g_result' = GtinParse(g_value, g_region)
    /\ g_pc' = IF g_result'.ok THEN "returned" ELSE "raised"
    /\ UNCHANGED <<g_value, g_region, dispVars, msgVars>>

GtinNext == GtinCall

SpecGtin == GtinInit /\ [][GtinNext]_vars

-----------------------------------------------------------------------------
(* Properties of biip.parse *)

Parsers == {"GS1Message", "Gtin", "Sscc", "Upc"}

Slot(res, parser) ==
    IF parser = "Gtin" THEN res.gtin
    ELSE IF parser = "Upc" THEN res.upc
    ELSE IF parser = "Sscc" THEN res.sscc
    ELSE res.gs1_message

ErrorSlot(res, parser) ==
    IF parser = "Gtin" THEN res.gtin_error
    ELSE IF parser = "Upc" THEN res.upc_error
    ELSE IF parser = "Sscc" THEN res.sscc_error
    ELSE res.gs1_message_error

Called(parser) == \E i \in DOMAIN calls : calls[i].parser = parser

\* C1: parse returns a ParseResult exactly when, with the queue drained, one
\* of gtin, upc, sscc, gs1_message is set, and raises ParseError otherwise; a
\* decoder that was run and left its slot empty has its error recorded, and
\* parse ends only with the queue empty, never because one decoder failed.
C1_ResultIffSlotSet ==
    /\ pc = "done" =>
           /\ queue = <<>>
           /\ outcome = IF \E p \in Parsers : Slot(result, p) # None
                        THEN "ParseResult" ELSE "ParseError"
    /\ \A p \in Parsers :
           Called(p) /\ Slot(result, p) = None => ErrorSlot(result, p) # None

\* parse has returned a result although one decoder failed
C1_Witness ==
    /\ pc = "done" /\ outcome = "ParseResult"
    /\ \E p \in Parsers : ErrorSlot(result, p) # None
    /\ \E p \in Parsers : Slot(result, p) # None

\* C2: each slot is write-once: the job at the head of the queue runs its
\* parser if and only if its slot is empty; a job for a slot that is set is
\* dropped, changing neither the result nor the queue behind it; and a slot
\* that is set keeps its object in every step.
C2_SlotsWriteOnce ==
    [][ /\ \A p \in Parsers :
               Slot(result, p) # None => Slot(result', p) = Slot(result, p)
        /\ (pc = "drain" /\ queue # <<>>) =>
               IF Slot(result, Head(queue).parser) # None
               THEN result' = result /\ calls' = calls /\ queue' = Tail(queue)
               ELSE calls' = Append(calls, Head(queue)) ]_vars

\* parse has returned after dropping a job: all four parsers were seeded, the
\* seeded GTIN job parsed a GTIN-12 and queued a UPC job behind the seeded one,
\* and only four decoder calls were made.
C2_Witness ==
    /\ pc = "done" /\ outcome = "ParseResult"
    /\ result.symbology_identifier = None
    /\ result.gtin # None /\ result.gtin[1].format = GTIN_12
    /\ result.upc # None
    /\ Len(calls) = 4

\* C3: a returned result whose gtin is a GTIN-12 has upc set, and
\* upc.as_upc_a() is the 12-digit form of that GTIN.
C3_Gtin12HasUpc ==
    (pc = "done" /\ outcome = "ParseResult"
        /\ result.gtin # None /\ result.gtin[1].format = GTIN_12)
    => /\ result.upc # None
       /\ as_upc_a(result.upc[1]) = as_gtin_12(result.gtin[1])

\* A GTIN-12 selected by the Symbology Identifier alone: the UPC comes from
\* the GTIN-to-UPC cross-feed.
C3_Witness ==
    /\ pc = "done" /\ outcome = "ParseResult"
    /\ result.symbology_identifier # None
    /\ Len(calls) = 2 /\ calls[1].parser = "Gtin" /\ calls[2].parser = "Upc"
    /\ result.gtin # None /\ result.gtin[1].format = GTIN_12
    /\ result.upc # None

IsAi(es, ai) == es.ai.ai = Digs(ai)

\* C4 as stated: every Element String with AI 00 (AI 01) of the returned
\* gs1_message that carries an SSCC (a GTIN) has its value in the top-level
\* sscc (gtin) slot.
C4_EveryElementCrossFed ==
    (pc = "done" /\ outcome = "ParseResult" /\ result.gs1_message # None)
    => \A i \in DOMAIN result.gs1_message[1].element_strings :
           LET es == result.gs1_message[1].element_strings[i]
           IN  /\ (IsAi(es, <<0, 0>>) /\ es.sscc # None)
                      => result.sscc # None /\ result.sscc[1].value = es.value
               /\ (IsAi(es, <<0, 1>>) /\ es.gtin # None)
                      => result.gtin # None /\ result.gtin[1].value = es.value

FirstWithAi(ess, i, ai) ==
    IsAi(ess[i], ai) /\ \A j \in 1..(i - 1) : ~IsAi(ess[j], ai)

\* C4, amended: the first Element String with AI 00 (AI 01) of the returned
\* gs1_message, when it carries an SSCC (a GTIN), has its value in the
\* top-level sscc (gtin) slot.
C4_FirstElementCrossFed ==
    (pc = "done" /\ outcome = "ParseResult" /\ result.gs1_message # None)
    => LET ess == result.gs1_message[1].element_strings
       IN  \A i \in DOMAIN ess :
               /\ (FirstWithAi(ess, i, <<0, 0>>) /\ ess[i].sscc # None)
                      => result.sscc # None /\ result.sscc[1].value = ess[i].value
               /\ (FirstWithAi(ess, i, <<0, 1>>) /\ ess[i].gtin # None)
                      => result.gtin # None /\ result.gtin[1].value = ess[i].value

\* All four parsers seeded; the message holds an AI 00 and an AI 01, and both
\* cross-feeds have filled their slots.
C4_Witness ==
    /\ pc = "done" /\ outcome = "ParseResult"
    /\ result.symbology_identifier = None
    /\ result.gs1_message # None
    /\ \E i, j \in DOMAIN result.gs1_message[1].element_strings :
           LET ess == result.gs1_message[1].element_strings
           IN  /\ IsAi(ess[i], <<0, 0>>) /\ IsAi(ess[j], <<0, 1>>)
               /\ result.sscc # None /\ result.sscc[1].value = ess[i].value
               /\ result.gtin # None /\ result.gtin[1].value = ess[j].value

\* The Symbology Identifier selected the parsers (the queue was not seeded
\* with all four).
Selected ==
    /\ result.symbology_identifier # None
    /\ result.symbology_identifier[1].gs1_symbology # None

\* The queue as C10 states it, for the result's Symbology Identifier and the
\* stripped value less its three characters.
C10_StatedQueue ==
    LET si == result.symbology_identifier
        rest == IF si = None THEN result.value ELSE Drop(result.value, 3)
    IN  IF Selected
        THEN (IF si[1].gs1_symbology[1] \in with_gtin
              THEN <<Job("Gtin", rest)>> ELSE <<>>)
             \o (IF si[1].gs1_symbology[1] \in with_ai_element_strings
                 THEN <<Job("GS1Message", rest)>> ELSE <<>>)
        ELSE <<Job("GS1Message", rest), Job("Gtin", rest), Job("Sscc", rest),
               Job("Upc", rest)>>

\* The queue is the seeded one: nothing has been taken from it yet.
JustSeeded == pc = "drain" /\ calls = <<>>

\* C10 as stated: the seeded queue is the one the Symbology Identifier
\* determines, and when it selected the parsers, neither the SSCC nor the UPC
\* parser is ever run on rest.
C10_SeededQueueAndNoUpcOnRest ==
    /\ JustSeeded => queue = C10_StatedQueue
    /\ (pc \in {"drain", "done"} /\ Selected) =>
           \A i \in DOMAIN calls :
               calls[i].parser \in {"Sscc", "Upc"} => calls[i].val # value

\* C10, amended: the seeded queue is the one the Symbology Identifier
\* determines; when it selected the parsers, the SSCC parser is never run on
\* rest, and the UPC parser is run on rest only as the cross-feed of the
\* GTIN-12 parsed from rest, whose 12-digit form is rest.
C10_SeededQueue ==
    /\ JustSeeded => queue = C10_StatedQueue
    /\ (pc \in {"drain", "done"} /\ Selected) =>
           \A i \in DOMAIN calls :
               /\ calls[i].parser = "Sscc" => calls[i].val # value
               /\ (calls[i].parser = "Upc" /\ calls[i].val = value) =>
                      /\ i > 1 /\ calls[1] = Job("Gtin", value)
                      /\ result.gtin # None
                      /\ result.gtin[1].format = GTIN_12
                      /\ as_gtin_12(result.gtin[1]) = value

\* "]E0" before a GTIN-12: the seeded queue was the single GTIN job, and the
\* cross-fed UPC job has run on rest.
C10_Witness ==
    /\ pc = "done" /\ Selected
    /\ calls = <<Job("Gtin", value), Job("Upc", value)>>

\* The jobs the drain loop can still run: those queued, and those the slots
\* still empty can cross-feed when they are filled (a GS1 Message two, a GTIN
\* one, a UPC one, an SSCC none).
DrainMeasure ==
    Len(queue)
    + (IF result.gs1_message = None THEN 2 ELSE 0)
    + (IF result.gtin = None THEN 1 ELSE 0)
    + (IF result.upc = None THEN 1 ELSE 0)

\* C11: the drain loop terminates on every input.  Every turn takes the job
\* at the head of the queue and appends new jobs behind the others; jobs are
\* appended only by a turn whose parser ran and filled its slot, never by a
\* failed parse or a dropped job; every turn lowers the number of jobs that
\* can still run, so the GTIN and UPC cross-feeds cannot feed each other
\* again and again; with the queue empty parse ends; and the decoder calls
\* made plus the jobs that can still run never exceed eight.
C11_DrainTerminates ==
    /\ [][ /\ (pc = "drain" /\ queue # <<>>) =>
                  /\ Len(queue') >= Len(queue) - 1
                  /\ Take(queue', Len(queue) - 1) = Tail(queue)
                  /\ Len(queue') > Len(queue) - 1 =>
                         /\ Slot(result, Head(queue).parser) = None
                         /\ Slot(result', Head(queue).parser) # None
                         /\ calls' = Append(calls, Head(queue))
                  /\ DrainMeasure' < DrainMeasure
                  /\ pc' = "drain"
           /\ (pc = "drain" /\ queue = <<>>) => pc' = "done" /\ queue' = <<>>
           /\ pc = "done" => pc' = "done" ]_vars
    /\ [](pc = "drain" =>
              /\ Len(calls) + DrainMeasure <= 8
              /\ queue # <<>> => Head(queue).parser \in Parsers)

\* parse has ended after the UPC-to-GTIN cross-feed: the fifth decoder call
\* parsed the GTIN-12 of a UPC-E, and that success queued no further UPC job.
C11_Witness ==
    /\ pc = "done" /\ queue = <<>>
    /\ Len(calls) = 5 /\ calls[4].parser = "Upc" /\ calls[5].parser = "Gtin"
    /\ result.upc # None /\ result.upc[1].format = "UPC_E"
    /\ result.gtin # None /\ result.gtin[1].format = GTIN_12

-----------------------------------------------------------------------------
(* Properties of GS1Message.parse and the HRI codec *)

LastElement == msg_element_strings[Len(msg_element_strings)]

\* C5: a loop turn that consumes an Element String whose AI has
\* fnc1_required false, and leaves a remaining buffer that starts with a
\* separator character, raises ParseError, wherever in the message it is.
C5_SeparatorAfterFixedLengthFails ==
    [][ (/\ msg_pc = "loop"
         /\ Len(msg_element_strings') = Len(msg_element_strings) + 1
         /\ LET es == msg_element_strings'[Len(msg_element_strings')]
                after == Drop(msg_rest, ElementLen(es))
            IN  /\ ~es.ai.fnc1_required
                /\ after # <<>> /\ after[1] \in msg_seps)
        => msg_pc' = "raised" ]_vars

\* The fixed-length Element String was the last of the message: only the
\* separator remained, after at least one other Element String.
C5_Witness ==
    /\ msg_pc = "raised"
    /\ Len(msg_element_strings) >= 2
    /\ ~LastElement.ai.fnc1_required
    /\ Len(msg_rest) = 1 /\ msg_rest[1] \in msg_seps

\* AI, raw value, and sep after an fnc1_required Element String that is not
\* the last one
RECURSIVE StatedReconstruction(_, _)
StatedReconstruction(ess, sep) ==
    IF ess = <<>> THEN <<>>
    ELSE Head(ess).ai.ai \o Head(ess).value
         \o (IF Head(ess).ai.fnc1_required /\ Len(ess) > 1 THEN <<sep>> ELSE <<>>)
         \o StatedReconstruction(Tail(ess), sep)

\* C6 as stated: the returned message's value is the concatenation of AI, raw
\* value and one separator after every fnc1_required Element String but the
\* last; likewise for the message parse_hri returns.
C6_StatedReconstruction ==
    /\ msg_pc \in {"returned", "rendered", "reparsed"} =>
           \E sep \in msg_seps :
               StatedReconstruction(msg_element_strings, sep) = msg_value
    /\ (msg_pc = "reparsed" /\ msg_reparsed.ok) =>
           StatedReconstruction(msg_reparsed.obj[1].element_strings,
                                ASCII_GROUP_SEPARATOR)
               = msg_reparsed.obj[1].value

\* v is the concatenation of AI and raw value of each of ess, each followed
\* by the separator character that follows it in v, if one does; and one
\* follows only an fnc1_required Element String.
RECURSIVE Reconstructs(_, _, _)
Reconstructs(ess, v, seps) ==
    IF ess = <<>> THEN v = <<>>
    ELSE LET base == Head(ess).ai.ai \o Head(ess).value
             after == Drop(v, Len(base))
             sepHere == after # <<>> /\ after[1] \in seps
         IN  /\ StartsWith(v, base)
             /\ sepHere => Head(ess).ai.fnc1_required
             /\ Reconstructs(Tail(ess), IF sepHere THEN Tail(after) ELSE after, seps)

\* C6, amended: the returned message's value is the concatenation, over its
\* element_strings in order, of the AI, the raw value and the separator
\* character that follows that Element String in the value, if one does; a
\* separator follows only an fnc1_required Element String, but it may be
\* missing after one that is not the last and present after the last one.
\* Likewise for the message parse_hri returns.
C6_Reconstruction ==
    /\ msg_pc \in {"returned", "rendered", "reparsed"} =>
           Reconstructs(msg_element_strings, msg_value, msg_seps)
    /\ (msg_pc = "reparsed" /\ msg_reparsed.ok) =>
           Reconstructs(msg_reparsed.obj[1].element_strings,
                        msg_reparsed.obj[1].value, DEFAULT_SEPARATOR_CHARS)

\* A returned message in which an fnc1_required Element String that is not
\* the last has no separator behind it.
C6_Witness ==
    /\ msg_pc = "returned"
    /\ Len(msg_element_strings) >= 2
    /\ msg_element_strings[1].ai.fnc1_required
    /\ \A i \in DOMAIN msg_value : msg_value[i] \notin msg_seps

\* C7: for every value GS1Message.parse accepts, parse_hri of its as_hri()
\* succeeds and has the same AIs and the same raw values, in order.
C7_HriRoundTrip ==
    msg_pc = "reparsed" =>
        /\ msg_reparsed.ok
        /\ LET again == msg_reparsed.obj[1].element_strings
           IN  /\ Len(again) = Len(msg_element_strings)
               /\ \A i \in DOMAIN again :
                      /\ again[i].ai = msg_element_strings[i].ai
                      /\ again[i].value = msg_element_strings[i].value

\* C8: a message GS1Message.parse returns has one or more Element Strings.
C8_MessageNotEmpty ==
    msg_pc = "returned" => msg_element_strings # <<>>

-----------------------------------------------------------------------------
(* Properties of Gtin.parse *)

\* C9: an RCN returned by Gtin.parse has region set exactly when its usage is
\* GEOGRAPHICAL and a region was supplied, and then it is the supplied region;
\* with no region supplied, region, weight, price and money are all None and
\* usage is set.
C9_RcnRegion ==
    (g_pc = "returned" /\ g_result.obj[1].is_rcn)
    => LET rcn == g_result.obj[1]
       IN  /\ rcn.usage # None
           /\ rcn.region # None <=>
                  (rcn.usage = Some("GEOGRAPHICAL") /\ g_region # None)
           /\ rcn.region # None => rcn.region = g_region
           /\ g_region = None =>
                  /\ rcn.weight = None /\ rcn.price = None /\ rcn.money = None

\* A COMPANY RCN parsed with a region supplied
C9_Witness ==
    /\ g_pc = "returned" /\ g_result.obj[1].is_rcn
    /\ g_result.obj[1].usage = Some("COMPANY")
    /\ g_region # None /\ g_result.obj[1].region = None

====
